---- MODULE Spec2Model ----
(***************************************************************************)
(* crumb: the datagram transport (src/transport/other_udp.rs, the DTLS     *)
(* capable Client/Server; src/transport/udp.rs, the plain UDP              *)
(* Client/Server) as a state machine over a loopback network of UDP        *)
(* sockets.                                                                *)
(*                                                                         *)
(* The network is the kernel's: every socket has a receive queue, a        *)
(* datagram sent to an address is appended to the queue of the open socket *)
(* bound there (a connected socket accepts only its peer's datagrams), and *)
(* a send on a socket that was never connected fails (EDESTADDRREQ).       *)
(* Loopback delivery is in order and without loss; a full queue blocks the *)
(* sender in the model (run.queue: MaxQueue, or one more).                  *)
(***************************************************************************)
EXTENDS Integers, Sequences, FiniteSets, TLC

VARIABLES
    run,      \* the explored run: its Clients, the steps left to it, its queues' size
    sock,     \* the kernel's UDP sockets, by owner
    cli,      \* the Client instances (and their init calls)
    srv,      \* the Server instance (and its handle_client call)
    got,      \* per client: the data its receives returned, with the buffer length
    replied,  \* per client: the replies sent with send_to to the address captured from it
    proc      \* the process of util/config.rs: its environment, the call made, its outcome

vars == <<run, sock, cli, srv, got, replied, proc>>

---------------------------------------------------------------------------
(* Bounds *)

MaxLen == 2      \* longest application payload
MaxQueue == 1    \* datagrams a socket's receive queue holds
MaxDur == 1      \* longest timeout duration
MaxOps == 7      \* steps of a run with two Clients
MaxVal == 4      \* longest value of a line of the env file

---------------------------------------------------------------------------
(* Values *)

Clients == {"c1", "c2"}
SockIds == Clients \cup {"srv"}
Min(a, b) == IF a <= b THEN a ELSE b

\* a run is explored for run.left further steps, or without limit
Unlimited == 0 - 1
Step == /\ run.left # 0
        /\ run' = IF run.left > 0 THEN [run EXCEPT !.left = @ - 1] ELSE run
        /\ UNCHANGED proc

\* the application payloads: one of each length, <<>>, <<22>>, <<22, 1>>, ...
\* (any bytes can be sent: those of length 2 are the bytes of a ClientHello)
PayloadByte(i) == IF i = 1 THEN 22 ELSE i - 1
Payloads == {[i \in 1..n |-> PayloadByte(i)] : n \in 0..MaxLen}

\* Option<Duration>: None, or Some(d); Some(0) is the zero Duration
NoTimeout == -1
Durations == {NoTimeout} \cup (0..MaxDur)

NoAddr == [host |-> "", port |-> 0]
Hosts == {"127.0.0.1"}
Ports == {8080}

\* The sockets are AF_INET6 ("[::]"): an IPv4 address is carried v4-mapped.
MapV4(h) == IF h = "127.0.0.1" THEN "::ffff:127.0.0.1" ELSE h

\* bind("[::]:0"): the kernel picks an ephemeral port
EphPort(c) == IF c = "c1" THEN 49152 ELSE 49153

\* format!("{}:{}", conf.host, conf.port), resolved
RemoteAddr(conf) == [host |-> MapV4(conf.host), port |-> conf.port]
\* the local address of a socket connected to conf's remote over loopback
LocalAddr(c, conf) == [host |-> MapV4(conf.host), port |-> EphPort(c)]
\* format!("[::]:{}", conf.port)
WildcardAddr(port) == [host |-> "::", port |-> port]

\* io::Result values
NoRes == [k |-> "None", n |-> 0, data |-> <<>>, err |-> ""]
Ok(n, data) == [k |-> "Ok", n |-> n, data |-> data, err |-> ""]
Err(e) == [k |-> "Err", n |-> 0, data |-> <<>>, err |-> e]

\* The security layer's datagrams: a record's first byte is its content type
\* (22 handshake, 23 application data).
ClientHello == <<22, 1>>
ServerHelloFlight(trusted) == <<22, 2, trusted>>
ClientFinished == <<22, 20>>
AppRecord(p) == <<23>> \o p
IsAppRecord(d) == Len(d) >= 1 /\ d[1] = 23
RecordPayload(d) == SubSeq(d, 2, Len(d))

\* util/config.rs: strings are sequences of characters; the environment maps
\* the names of the variables that are set to their values
EmptyEnv == [k \in {} |-> <<>>]
NoConfig == [host |-> <<>>, port |-> 0, compression_type |-> "", reliable |-> FALSE,
             pem_path |-> <<>>, proto_path |-> <<>>]
NoOut == [k |-> "None", msg |-> "", arg |-> <<>>, config |-> NoConfig]
\* file_path: None
NoFile == [some |-> FALSE, exists |-> FALSE, size |-> 0, lines |-> <<>>]
\* the process before Config::from_env is called (penv: the environment then)
NewProc(env) == [env |-> env, penv |-> env, file |-> NoFile, out |-> NoOut]

---------------------------------------------------------------------------
(* The kernel: UDP sockets over loopback *)

ClosedSock == [h |-> 0, local |-> NoAddr, peer |-> NoAddr, rq |-> <<>>,
               rto |-> NoTimeout, wto |-> NoTimeout]

\* UdpSocket::bind(addr): one handle, not connected, blocking without timeout
BoundSock(addr) == [h |-> 1, local |-> addr, peer |-> NoAddr, rq |-> <<>>,
                    rto |-> NoTimeout, wto |-> NoTimeout]

Dgram(src, data) == [src |-> src, data |-> data]

\* an open socket s receives a datagram for dst sent from src
Matches(s, dst, src) ==
    /\ s.h > 0
    /\ s.local.port = dst.port
    /\ (s.local.host = "::" \/ s.local.host = dst.host)
    /\ (s.peer = NoAddr \/ s.peer = src)

Targets(sk, dst, src) == {s \in SockIds : Matches(sk[s], dst, src)}

HasRoom(sk, dst, src) == \A s \in Targets(sk, dst, src) : Len(sk[s].rq) < run.queue

\* the source address of a datagram a socket sends to dst
SrcFor(s, dst) == IF s.local.host = "::" THEN [host |-> dst.host, port |-> s.local.port]
                  ELSE s.local

\* sendto(dst): the datagram joins the queue of the socket bound at dst, if any
Deliver(sk, s, dst, data) ==
    LET dg == Dgram(SrcFor(sk[s], dst), data) IN
    [t \in SockIds |-> IF t \in Targets(sk, dst, dg.src)
                       THEN [sk[t] EXCEPT !.rq = Append(@, dg)]
                       ELSE sk[t]]

\* UdpSocket::send: "This method will fail if the socket is not connected."
SendFails(s) == s.peer = NoAddr

SockSend(sk, s, data) ==
    IF SendFails(sk[s]) THEN sk ELSE Deliver(sk, s, sk[s].peer, data)

SendRoom(sk, s) == SendFails(sk[s]) \/ HasRoom(sk, sk[s].peer, SrcFor(sk[s], sk[s].peer))

\* (mutant) the whole datagram is returned, whatever the buffer's length
NoTruncate(data, L) == data

\* (mutant) dropping a handle closes the socket, whoever else holds it
DropHandleCloses(s) == ClosedSock

\* recv into a buffer of length L: the datagram's first min(N, L) bytes
Truncate(data, L) == SubSeq(data, 1, Min(Len(data), L))

\* drop(handle): the socket closes with its last handle
DropHandle(s) == IF s.h <= 1 THEN ClosedSock ELSE [s EXCEPT !.h = @ - 1]

---------------------------------------------------------------------------
(* other_udp.rs: the DatagramStream abstraction *)

\* what a stream puts on the wire for an application write:
\* Cleartext the bytes themselves, Secured an application-data record
WireData(kind, data) == IF kind = "Secured" THEN AppRecord(data) ELSE data

\* the security session writes nothing for an empty buffer and returns Ok(0)
WritesNothing(kind, data) == kind = "Secured" /\ data = <<>>

\* DatagramStream write: UdpStream::write is socket.send, SslStream::write wraps it
StreamWriteResult(sk, s, kind, data) ==
    IF WritesNothing(kind, data) THEN Ok(0, <<>>)
    ELSE IF SendFails(sk[s]) THEN Err("NotConnected")
    ELSE Ok(Len(data), <<>>)

StreamWriteEffect(sk, s, kind, data) ==
    IF WritesNothing(kind, data) THEN sk ELSE SockSend(sk, s, WireData(kind, data))

\* Write::write_all: no write call at all for an empty buffer
WriteAllResult(sk, s, kind, buf) ==
    IF buf = <<>> THEN Ok(0, <<>>) ELSE StreamWriteResult(sk, s, kind, buf)

WriteAllEffect(sk, s, kind, buf) ==
    IF buf = <<>> THEN sk ELSE StreamWriteEffect(sk, s, kind, buf)

\* the datagrams a write_all transmits, with their destination
WriteAllSent(sk, s, kind, buf) ==
    IF buf = <<>> \/ WritesNothing(kind, buf) \/ SendFails(sk[s]) THEN <<>>
    ELSE <<[dst |-> sk[s].peer, data |-> WireData(kind, buf)]>>

\* DatagramStream read: does the stream return on this datagram?  A Secured
\* stream discards a datagram that is no application-data record.
StreamReadReturns(kind, d) == kind = "Cleartext" \/ IsAppRecord(d)

StreamReadData(kind, d, L) ==
    IF kind = "Secured" THEN Truncate(RecordPayload(d), L) ELSE Truncate(d, L)

\* what a read into a buffer of length L leaves to be read: a socket's recv drops
\* the rest of the datagram; the security session keeps the rest of a record it
\* has decrypted, and its next read returns it
StreamReadLeaves(kind, rq, L) ==
    LET d == Head(rq).data IN
    IF kind = "Secured" /\ IsAppRecord(d) /\ Len(RecordPayload(d)) > L
    THEN <<[Head(rq) EXCEPT
               !.data = AppRecord(SubSeq(RecordPayload(d), L + 1, Len(RecordPayload(d))))]>>
         \o Tail(rq)
    ELSE Tail(rq)

SetTimeoutFails(d) == d = 0

\* (mutant) the write timeout is forgotten
SetTimeoutReadOnly(s, d) ==
    IF SetTimeoutFails(d) THEN s ELSE [s EXCEPT !.rto = d]

\* set_read_timeout(duration)?; set_write_timeout(duration)
SetTimeoutEffect(s, d) ==
    IF SetTimeoutFails(d) THEN s ELSE [s EXCEPT !.rto = d, !.wto = d]

\* (mutant) a blocked recv gives up whether or not a timeout is set
RecvTimesOutAlways(s) == s.rq = <<>>

\* a blocked recv gives up once the read timeout has elapsed
RecvTimesOut(s) == s.rq = <<>> /\ s.rto # NoTimeout

\* DatagramStream::peer_addr: socket.peer_addr(), the address the kernel holds
PeerAddr(s) == s.peer

\* the SocketAddr the string "{host}:{port}" resolves to (ToSocketAddrs)
ResolvedAddr(conf) == [host |-> conf.host, port |-> conf.port]

---------------------------------------------------------------------------
(* other_udp.rs: Client *)

NoConf == [host |-> "", port |-> 0, use_dtls |-> FALSE]
Configs == [host : Hosts, port : Ports, use_dtls : BOOLEAN]

NewClient == [st |-> "new", conf |-> NoConf, kind |-> "None", hs |-> "None",
              pc |-> "idle", buflen |-> 0, res |-> NoRes]

\* the socket of Client::init after bind("[::]:0") and connect(addr)
ConnectedSock(c, conf) ==
    [BoundSock(LocalAddr(c, conf)) EXCEPT !.peer = RemoteAddr(conf)]

\* the connector's session on reading a datagram: the server's flight with a
\* certificate it trusts completes the handshake, one it does not trust fails
\* it, anything else is discarded
ConnectorRead(d) ==
    IF d = ServerHelloFlight(1) THEN "Established"
    ELSE IF d = ServerHelloFlight(0) THEN "Failed"
    ELSE "Handshaking"

\* (mutant) the handshake's error is logged and not returned
ClientInitIgnoresErr(hs) == "ready"

\* if let Err(e) = ssl_stream.connect() { return Err(..) } ... Box::new(ssl_stream)
ClientInitOutcome(hs) == IF hs = "Established" THEN "ready" ELSE "failed"

ClientInit(c, conf, ioOk) ==
    /\ Step
    /\ c \in run.clients
    /\ cli[c].st = "new"
    /\ UNCHANGED <<srv, got, replied>>
    /\ IF ~ioOk
       THEN \* bind, connect or try_clone failed: the ? returns the error
            /\ cli' = [cli EXCEPT ![c] = [@ EXCEPT !.st = "failed", !.conf = conf,
                                                   !.res = Err("io")]]
            /\ sock' = sock
       ELSE IF conf.use_dtls
       THEN \* SslStream over a clone of the socket; connect() sends the first flight
            LET sk == [sock EXCEPT ![c] = [ConnectedSock(c, conf) EXCEPT !.h = 2]] IN
            /\ SendRoom(sk, c)
            /\ sock' = SockSend(sk, c, ClientHello)
            /\ cli' = [cli EXCEPT ![c] = [@ EXCEPT !.st = "handshaking", !.conf = conf,
                                                   !.hs = "Handshaking"]]
       ELSE /\ sock' = [sock EXCEPT ![c] = ConnectedSock(c, conf)]
            /\ cli' = [cli EXCEPT ![c] = [@ EXCEPT !.st = "ready", !.conf = conf,
                                                   !.kind = "Cleartext"]]

\* Client::init, blocked in ssl_stream.connect(): one datagram read by the session
ClientHandshake(c) ==
    /\ Step
    /\ cli[c].st = "handshaking"
    /\ sock[c].rq # <<>>
    /\ UNCHANGED <<srv, got, replied>>
    /\ LET hs == ConnectorRead(Head(sock[c].rq).data)
           popped == [sock EXCEPT ![c].rq = Tail(@)]
       IN  IF hs = "Handshaking"
           THEN sock' = popped /\ cli' = cli
           ELSE IF ClientInitOutcome(hs) = "ready"
           THEN \* the session answers with its Finished; init drops `socket`
                /\ SendRoom(popped, c)
                /\ sock' = [SockSend(popped, c, ClientFinished) EXCEPT ![c].h = 1]
                /\ cli' = [cli EXCEPT ![c] = [@ EXCEPT !.st = "ready", !.kind = "Secured",
                                                       !.hs = hs]]
           ELSE \* the stream and the socket are dropped with the Err
                /\ sock' = [popped EXCEPT ![c] = ClosedSock]
                /\ cli' = [cli EXCEPT ![c] = [@ EXCEPT !.st = "failed", !.hs = hs,
                                                       !.res = Err("DTLS handshake failed")]]

\* Client::send
ClientSend(c, data) ==
    /\ Step
    /\ cli[c].st = "ready" /\ cli[c].pc = "idle"
    /\ SendRoom(sock, c)
    /\ sock' = StreamWriteEffect(sock, c, cli[c].kind, data)
    /\ cli' = [cli EXCEPT ![c].res = StreamWriteResult(sock, c, cli[c].kind, data)]
    /\ UNCHANGED <<srv, got, replied>>

\* Client::receive is called with a buffer of length L and blocks in read
ClientReceiveCall(c, L) ==
    /\ Step
    /\ cli[c].st = "ready" /\ cli[c].pc = "idle"
    /\ cli' = [cli EXCEPT ![c] = [@ EXCEPT !.pc = "recv", !.buflen = L, !.res = NoRes]]
    /\ UNCHANGED <<sock, srv, got, replied>>

\* a datagram is there: the read takes it
ClientReceiveReturn(c) ==
    /\ Step
    /\ cli[c].pc = "recv"
    /\ sock[c].rq # <<>>
    /\ LET d == Head(sock[c].rq).data IN
       /\ sock' = [sock EXCEPT ![c].rq = StreamReadLeaves(cli[c].kind, @, cli[c].buflen)]
       /\ IF StreamReadReturns(cli[c].kind, d)
          THEN LET data == StreamReadData(cli[c].kind, d, cli[c].buflen) IN
               cli' = [cli EXCEPT ![c] = [@ EXCEPT !.pc = "idle",
                                                   !.res = Ok(Len(data), data)]]
          ELSE cli' = cli
    /\ UNCHANGED <<srv, got, replied>>

\* no datagram within the read timeout
ClientReceiveTimeout(c) ==
    /\ Step
    /\ cli[c].pc = "recv"
    /\ RecvTimesOut(sock[c])
    /\ cli' = [cli EXCEPT ![c] = [@ EXCEPT !.pc = "idle", !.res = Err("Timeout")]]
    /\ UNCHANGED <<sock, srv, got, replied>>

\* DatagramStream::set_timeout on the Client's transport
ClientSetTimeout(c, d) ==
    /\ Step
    /\ cli[c].st = "ready" /\ cli[c].pc = "idle"
    /\ sock' = [sock EXCEPT ![c] = SetTimeoutEffect(@, d)]
    /\ cli' = [cli EXCEPT ![c] = [@ EXCEPT
                  !.res = IF SetTimeoutFails(d) THEN Err("InvalidInput") ELSE Ok(0, <<>>)]]
    /\ UNCHANGED <<srv, got, replied>>

\* (mutant) the transport is not dropped
ClientCloseLeaks(s) == s

\* drop(self.transport)
ClientCloseSock(s) == DropHandle(s)

\* Client::close(self)
ClientClose(c) ==
    /\ Step
    /\ cli[c].st = "ready" /\ cli[c].pc = "idle"
    /\ sock' = [sock EXCEPT ![c] = ClientCloseSock(@)]
    /\ cli' = [cli EXCEPT ![c].st = "closed"]
    /\ UNCHANGED <<srv, got, replied>>

---------------------------------------------------------------------------
(* other_udp.rs: Server *)

SrvBufLen == 4096
TestBufLen == 1024

\* the files Server::init names: "key.pem" and "cert.pem"
PemFiles == {"key.pem", "cert.pem"}

NewServer == [st |-> "new", conf |-> NoConf, acceptor |-> FALSE, pc |-> "idle",
              buffer |-> <<>>, client_addr |-> NoAddr, hs |-> "None",
              res |-> NoRes, sent |-> <<>>, echo |-> 0, pem |-> "na"]

\* set_private_key_file("key.pem").unwrap(); set_certificate_chain_file("cert.pem").unwrap()
AcceptorLoads(files) == PemFiles \subseteq files

\* Server::init; files are the valid PEM files of the working directory
ServerInit(conf, bindOk, files) ==
    /\ Step
    /\ srv.st = "new"
    /\ UNCHANGED <<cli, got, replied>>
    /\ IF ~bindOk
       THEN \* UdpSocket::bind(&addr)? returns the error
            /\ srv' = [srv EXCEPT !.st = "failed", !.conf = conf, !.res = Err("io")]
            /\ sock' = sock
       ELSE IF conf.use_dtls /\ ~AcceptorLoads(files)
       THEN \* unwrap() on the Err: the thread panics, the socket is dropped
            /\ srv' = [srv EXCEPT !.st = "panicked", !.conf = conf, !.pem = "bad"]
            /\ sock' = sock
       ELSE /\ srv' = [srv EXCEPT !.st = "listening", !.conf = conf,
                                  !.acceptor = conf.use_dtls,
                                  !.pem = IF conf.use_dtls THEN "ok" ELSE "na"]
            /\ sock' = [sock EXCEPT !["srv"] = BoundSock(WildcardAddr(conf.port))]

\* (mutant) the Err arm does not return
EchoReachedAlways(hs) == TRUE

\* match acceptor.accept(udp_stream): is the echo (write_all) reached?
EchoReached(hs) == hs = "Established"

\* (mutant) the session takes any first datagram for a completed handshake
AcceptorReadEager(hs, d) ==
    IF hs = "AwaitingFirstFlight" THEN "Established" ELSE hs

\* the acceptor's session on reading a datagram
AcceptorRead(hs, d) ==
    IF hs = "AwaitingFirstFlight" /\ d = ClientHello THEN "Handshaking"
    ELSE IF hs = "Handshaking" /\ d = ClientFinished THEN "Established"
    ELSE hs

\* handle_client returns: the stream (a clone of the socket) is dropped
HandleClientReturn(sk, s, kind, hs, res) ==
    /\ sock' = [WriteAllEffect(sk, "srv", kind, s.buffer) EXCEPT
                    !["srv"] = DropHandle(@)]
    /\ srv' = [s EXCEPT !.pc = "idle", !.hs = hs, !.res = res,
                        !.echo = 1,
                        !.sent = WriteAllSent(sk, "srv", kind, s.buffer)]

\* handle_client returns the handshake's error
HandleClientFail(sk, s) ==
    IF EchoReached("Failed")
    THEN HandleClientReturn(sk, s, "Secured", "Failed", Err("DTLS handshake failed"))
    ELSE /\ sock' = [sk EXCEPT !["srv"] = DropHandle(@)]
         /\ srv' = [s EXCEPT !.pc = "idle", !.hs = "Failed",
                             !.res = Err("DTLS handshake failed")]

\* (mutant) the datagram that arrived last is taken
RecvFromNewest(s) ==
    [d |-> s.rq[Len(s.rq)], sock |-> [s EXCEPT !.rq = SubSeq(@, 1, Len(@) - 1)]]

\* self.socket.recv_from(&mut buffer): the datagram at the head of the queue
\* leaves it
RecvFrom(s) == [d |-> Head(s.rq), sock |-> [s EXCEPT !.rq = Tail(@)]]

\* Server::handle_client up to the stream: recv_from, then the Cleartext echo or
\* the start of acceptor.accept
HandleClientRecv ==
    /\ Step
    /\ srv.st = "listening" /\ srv.pc = "idle"
    /\ sock["srv"].rq # <<>>
    /\ UNCHANGED <<cli, got, replied>>
    /\ LET d == RecvFrom(sock["srv"]).d
           sk == [sock EXCEPT !["srv"] = [RecvFrom(@).sock EXCEPT !.h = @ + 1]]
           s == [srv EXCEPT !.buffer = Truncate(d.data, SrvBufLen),
                            !.client_addr = d.src, !.sent = <<>>, !.echo = 0,
                            !.res = NoRes, !.hs = "None"]
       IN  IF srv.acceptor
           THEN /\ sock' = sk
                /\ srv' = [s EXCEPT !.pc = "accept", !.hs = "AwaitingFirstFlight"]
           ELSE /\ SendRoom(sk, "srv")
                /\ HandleClientReturn(sk, s, "Cleartext", "None",
                       WriteAllResult(sk, "srv", "Cleartext", s.buffer))

\* handle_client blocked in acceptor.accept: one datagram read by the session
HandleClientAccept ==
    /\ Step
    /\ srv.pc = "accept"
    /\ sock["srv"].rq # <<>>
    /\ UNCHANGED <<cli, got, replied>>
    /\ LET d == Head(sock["srv"].rq)
           sk == [sock EXCEPT !["srv"].rq = Tail(@)]
           hs == AcceptorRead(srv.hs, d.data)
       IN  IF hs = srv.hs
           THEN \* not the flight the session waits for: discarded
                sock' = sk /\ srv' = srv
           ELSE IF hs = "Handshaking"
           THEN \* the session has a first flight: it is to answer with its own
                /\ sock' = sk
                /\ srv' = [srv EXCEPT !.hs = hs, !.pc = "flight"]
           ELSE /\ SendRoom(sk, "srv")
                /\ HandleClientReturn(sk, srv, "Secured", hs,
                       WriteAllResult(sk, "srv", "Secured", srv.buffer))

\* handle_client in acceptor.accept: the session's flight goes out through the
\* stream's write; a write error fails the handshake
HandleClientFlight ==
    /\ Step
    /\ srv.pc = "flight"
    /\ UNCHANGED <<cli, got, replied>>
    /\ IF SendFails(sock["srv"])
       THEN HandleClientFail(sock, srv)
       ELSE /\ SendRoom(sock, "srv")
            /\ \E t \in {0, 1} : sock' = SockSend(sock, "srv", ServerHelloFlight(t))
            /\ srv' = [srv EXCEPT !.pc = "accept"]

\* b"Hello, Client!": the longest payload
HelloClient == [i \in 1..MaxLen |-> PayloadByte(i)]

\* what the test's server thread answers: its literal, and what a peer speaking
\* the security layer would send (its handshake flight, the literal in a record)
Replies == {HelloClient, AppRecord(HelloClient)}
               \cup {ServerHelloFlight(t) : t \in {0, 1}}

\* tests::test_udp_client_server, the server thread: server.socket.recv_from,
\* then server.socket.send_to(reply, client_addr)
TestServerThread(reply) ==
    /\ Step
    /\ srv.st = "listening" /\ srv.pc = "idle"
    /\ sock["srv"].rq # <<>>
    /\ UNCHANGED <<cli, got, replied>>
    /\ LET d == Head(sock["srv"].rq)
           sk == [sock EXCEPT !["srv"].rq = Tail(@)]
       IN  /\ HasRoom(sk, d.src, SrcFor(sk["srv"], d.src))
           /\ sock' = Deliver(sk, "srv", d.src, reply)
           \* the thread's buffer and client_addr are its locals
           /\ srv' = [srv EXCEPT !.res = NoRes, !.hs = "None",
                                 !.sent = <<>>, !.echo = 0,
                                 !.buffer = <<>>, !.client_addr = NoAddr]

\* drop(self.socket)
ServerCloseSock(s) == DropHandle(s)

\* Server::close(self)
ServerClose ==
    /\ Step
    /\ srv.st = "listening" /\ srv.pc = "idle"
    /\ sock' = [sock EXCEPT !["srv"] = ServerCloseSock(@)]
    /\ srv' = [srv EXCEPT !.st = "closed"]
    /\ UNCHANGED <<cli, got, replied>>

---------------------------------------------------------------------------
(* The specification of other_udp.rs *)

Init ==
    /\ run = [clients |-> Clients, left |-> MaxOps, queue |-> MaxQueue]
    /\ sock = [s \in SockIds |-> ClosedSock]
    /\ cli = [c \in Clients |-> NewClient]
    /\ srv = NewServer
    /\ got = [c \in Clients |-> <<>>]
    /\ replied = [c \in Clients |-> <<>>]
    /\ proc = NewProc(EmptyEnv)

Next ==
    \/ \E c \in Clients, conf \in Configs, ioOk \in BOOLEAN : ClientInit(c, conf, ioOk)
    \/ \E c \in Clients : ClientHandshake(c)
    \/ \E c \in Clients, data \in Payloads : ClientSend(c, data)
    \/ \E c \in Clients, L \in 1..MaxLen : ClientReceiveCall(c, L)
    \/ \E c \in Clients : ClientReceiveReturn(c)
    \/ \E c \in Clients : ClientReceiveTimeout(c)
    \/ \E c \in Clients, d \in Durations : ClientSetTimeout(c, d)
    \/ \E c \in Clients : ClientClose(c)
    \/ \E conf \in Configs, bindOk \in BOOLEAN, files \in SUBSET PemFiles :
           ServerInit(conf, bindOk, files)
    \/ HandleClientRecv
    \/ HandleClientAccept
    \/ HandleClientFlight
    \/ \E reply \in Replies : TestServerThread(reply)
    \/ ServerClose

Spec == Init /\ [][Next]_vars

\* the Client and the Server through their API, two Clients, MaxOps steps
\* (Init and Next above); one Client, runs of any length
InitSolo ==
    /\ run = [clients |-> {"c1"}, left |-> Unlimited, queue |-> MaxQueue]
    /\ sock = [s \in SockIds |-> ClosedSock]
    /\ cli = [c \in Clients |-> NewClient]
    /\ srv = NewServer
    /\ got = [c \in Clients |-> <<>>]
    /\ replied = [c \in Clients |-> <<>>]
    /\ proc = NewProc(EmptyEnv)

SpecSolo == InitSolo /\ [][Next]_vars

\* the Client and the Server with a Server queue that holds a second datagram:
\* one Client, MaxOps steps
InitQueue ==
    /\ run = [clients |-> {"c1"}, left |-> MaxOps, queue |-> MaxQueue + 1]
    /\ sock = [s \in SockIds |-> ClosedSock]
    /\ cli = [c \in Clients |-> NewClient]
    /\ srv = NewServer
    /\ got = [c \in Clients |-> <<>>]
    /\ replied = [c \in Clients |-> <<>>]
    /\ proc = NewProc(EmptyEnv)

SpecQueue == InitQueue /\ [][Next]_vars

\* a blocked receive is woken: by a datagram, or by the kernel's timer when a
\* read timeout is set
ReceiveWakes(c) == ClientReceiveReturn(c) \/ ClientReceiveTimeout(c)

\* a Client and what can reach it: handle_client transmits nothing to a Client
\* (its write is on the listening socket, which has no peer), so what wakes a
\* receive is a reply of the test's server thread, or the timer
NextLive ==
    \/ \E c \in Clients, conf \in Configs, ioOk \in BOOLEAN : ClientInit(c, conf, ioOk)
    \/ \E c \in Clients : ClientHandshake(c)
    \/ \E c \in Clients, data \in Payloads : ClientSend(c, data)
    \/ \E c \in Clients, L \in 1..MaxLen : ClientReceiveCall(c, L)
    \/ \E c \in Clients : ClientReceiveReturn(c)
    \/ \E c \in Clients : ClientReceiveTimeout(c)
    \/ \E c \in Clients, d \in Durations : ClientSetTimeout(c, d)
    \/ \E c \in Clients : ClientClose(c)
    \/ \E conf \in Configs, bindOk \in BOOLEAN, files \in SUBSET PemFiles :
           ServerInit(conf, bindOk, files)
    \/ \E reply \in Replies : TestServerThread(reply)
    \/ ServerClose

SpecLive == InitSolo /\ [][NextLive]_vars /\ \A c \in Clients : WF_vars(ReceiveWakes(c))

\* every thread that can take a step is scheduled: the program stops only
\* where every call is blocked or has returned
SpecFair == InitSolo /\ [][Next]_vars /\ WF_vars(Next)

---------------------------------------------------------------------------
(* udp.rs: the plain UDP Client and Server *)

UdpConfigs == {conf \in Configs : ~conf.use_dtls}

\* the owner of a local address
AddrOwner(addr) == {c \in Clients : cli[c].conf # NoConf /\ LocalAddr(c, cli[c].conf) = addr}

\* (mutant) the datagram is read and left in the queue
SockRecvPeek(s, L) == [data |-> Truncate(Head(s.rq).data, L), sock |-> s]

\* self.socket.recv(buffer): the datagram leaves the queue, its first bytes are returned
SockRecv(s, L) == [data |-> Truncate(Head(s.rq).data, L), sock |-> [s EXCEPT !.rq = Tail(@)]]

\* Client::init
UdpClientInit(c, conf, ioOk) ==
    /\ Step
    /\ c \in run.clients
    /\ cli[c].st = "new"
    /\ UNCHANGED <<srv, got, replied>>
    /\ IF ~ioOk
       THEN /\ cli' = [cli EXCEPT ![c] = [@ EXCEPT !.st = "failed", !.conf = conf,
                                                   !.res = Err("io")]]
            /\ sock' = sock
       ELSE /\ sock' = [sock EXCEPT ![c] = ConnectedSock(c, conf)]
            /\ cli' = [cli EXCEPT ![c] = [@ EXCEPT !.st = "ready", !.conf = conf,
                                                   !.kind = "Cleartext"]]

\* Client::send
UdpClientSend(c, data) ==
    /\ Step
    /\ cli[c].st = "ready"
    /\ SendRoom(sock, c)
    /\ sock' = SockSend(sock, c, data)
    /\ cli' = [cli EXCEPT ![c].res =
                  IF SendFails(sock[c]) THEN Err("NotConnected") ELSE Ok(Len(data), <<>>)]
    /\ UNCHANGED <<srv, got, replied>>

\* Client::receive with a buffer of length L: blocks until a datagram is there
UdpClientReceive(c, L) ==
    /\ Step
    /\ cli[c].st = "ready"
    /\ sock[c].rq # <<>>
    /\ LET r == SockRecv(sock[c], L) IN
       /\ sock' = [sock EXCEPT ![c] = r.sock]
       /\ cli' = [cli EXCEPT ![c].res = Ok(Len(r.data), r.data)]
       /\ got' = [got EXCEPT ![c] = Append(@, [data |-> r.data, n |-> Len(r.data),
                                                 cap |-> L])]
    /\ UNCHANGED <<srv, replied>>

\* Client::close(self)
UdpClientClose(c) ==
    /\ Step
    /\ cli[c].st = "ready"
    /\ sock' = [sock EXCEPT ![c] = DropHandle(@)]
    /\ cli' = [cli EXCEPT ![c].st = "closed"]
    /\ UNCHANGED <<srv, got, replied>>

\* Server::init
UdpServerInit(conf, bindOk) ==
    /\ Step
    /\ srv.st = "new"
    /\ UNCHANGED <<cli, got, replied>>
    /\ IF ~bindOk
       THEN /\ srv' = [srv EXCEPT !.st = "failed", !.conf = conf, !.res = Err("io")]
            /\ sock' = sock
       ELSE /\ srv' = [srv EXCEPT !.st = "listening", !.conf = conf]
            /\ sock' = [sock EXCEPT !["srv"] = BoundSock(WildcardAddr(conf.port))]

\* Server::receive_from with a buffer of length L
UdpServerReceiveFrom(L) ==
    /\ Step
    /\ srv.st = "listening"
    /\ sock["srv"].rq # <<>>
    /\ LET r == SockRecv(sock["srv"], L) IN
       /\ sock' = [sock EXCEPT !["srv"] = r.sock]
       /\ srv' = [srv EXCEPT !.buffer = r.data, !.client_addr = Head(sock["srv"].rq).src,
                             !.res = Ok(Len(r.data), r.data)]
    /\ UNCHANGED <<cli, got, replied>>

\* the destination of the datagram send_to(data, dest) transmits
SendToDest(dest) == dest

\* Server::send_to(data, dest), dest the address receive_from returned
UdpServerSendTo(data) ==
    /\ Step
    /\ srv.st = "listening"
    /\ srv.client_addr # NoAddr
    /\ HasRoom(sock, SendToDest(srv.client_addr),
               SrcFor(sock["srv"], SendToDest(srv.client_addr)))
    /\ sock' = Deliver(sock, "srv", SendToDest(srv.client_addr), data)
    /\ srv' = [srv EXCEPT !.res = Ok(Len(data), <<>>)]
    /\ replied' = [c \in Clients |-> IF c \in AddrOwner(srv.client_addr)
                                     THEN Append(replied[c], data) ELSE replied[c]]
    /\ UNCHANGED <<cli, got>>

\* Server::close(self)
UdpServerClose ==
    /\ Step
    /\ srv.st = "listening"
    /\ sock' = [sock EXCEPT !["srv"] = DropHandle(@)]
    /\ srv' = [srv EXCEPT !.st = "closed"]
    /\ UNCHANGED <<cli, got, replied>>

NextUdp ==
    \/ \E c \in Clients, conf \in UdpConfigs, ioOk \in BOOLEAN : UdpClientInit(c, conf, ioOk)
    \/ \E c \in Clients, data \in Payloads : UdpClientSend(c, data)
    \/ \E c \in Clients, L \in 1..MaxLen : UdpClientReceive(c, L)
    \/ \E c \in Clients : UdpClientClose(c)
    \/ \E conf \in UdpConfigs, bindOk \in BOOLEAN : UdpServerInit(conf, bindOk)
    \/ \E L \in 1..MaxLen : UdpServerReceiveFrom(L)
    \/ \E data \in Payloads : UdpServerSendTo(data)
    \/ UdpServerClose

SpecUdp == Init /\ [][NextUdp]_vars

---------------------------------------------------------------------------
(* util/config.rs: Config::from_env *)

\* const MAX_ENV_FILE_SIZE: u64 = 8 * 1024
MAX_ENV_FILE_SIZE == 8 * 1024
\* port: u16
U16Max == 65535

\* T::default() of the types from_env reads: impl Default for CompressionType,
\* and those of u16, bool and String
DefaultOf(T) ==
    CASE T = "CompressionType" -> "Zstd"
      [] T = "u16" -> 0
      [] T = "bool" -> FALSE
      [] T = "String" -> <<>>

\* impl Default for Config
DefaultConfig == [host |-> <<"1", "2", "7", ".", "0", ".", "0", ".", "1">>, port |-> 50505,
                  compression_type |-> DefaultOf("CompressionType"), reliable |-> TRUE,
                  pem_path |-> <<"c", "e", "r", "t", ".", "p", "e", "m">>, proto_path |-> <<"m", "e", "s", "s", "a", "g", "e", ".", "p", "r", "o", "t", "o">>]

\* the names of the variables; in a line of the env file a name is one symbol
\* (it holds no space, quote, '#' or '=')
CRUMB_HOST == "CRUMB_HOST"
CRUMB_PORT == "CRUMB_PORT"
CRUMB_COMPRESSION_TYPE == "CRUMB_COMPRESSION_TYPE"
CRUMB_RELIABLE == "CRUMB_RELIABLE"
CRUMB_PEM_PATH == "CRUMB_PEM_PATH"
CRUMB_PROTO_PATH == "CRUMB_PROTO_PATH"

\* env::var(key) is Ok / its value; env::set_var(key, value)
IsSet(env, key) == <<key>> \in DOMAIN env
Var(env, key) == env[<<key>>]
SetVar(env, key, value) ==
    [k \in DOMAIN env \cup {key} |-> IF k = key THEN value ELSE env[k]]

\* characters
Whitespace == {" "}
Quotes == {"\"", "'"}
Digits == <<"0", "1", "2", "3", "4", "5", "6", "7", "8", "9">>
IsDigit(ch) == \E i \in 1..Len(Digits) : Digits[i] = ch
DigitValue(ch) == (CHOOSE i \in 1..Len(Digits) : Digits[i] = ch) - 1
IsHexDigit(ch) ==
    \/ IsDigit(ch)
    \/ ch \in {"a", "b", "c", "d", "e", "f", "A", "B", "C", "D", "E", "F"}
UpperCase == <<"A", "B", "C", "D", "E", "F", "G", "H", "I", "J", "K", "L", "M", "N", "O", "P", "Q", "R", "S", "T", "U", "V", "W", "X", "Y", "Z">>
LowerCase == <<"a", "b", "c", "d", "e", "f", "g", "h", "i", "j", "k", "l", "m", "n", "o", "p", "q", "r", "s", "t", "u", "v", "w", "x", "y", "z">>

\* str::to_lowercase
to_lowercase(s) ==
    [i \in 1..Len(s) |->
        IF \E j \in 1..Len(UpperCase) : UpperCase[j] = s[i]
        THEN LowerCase[CHOOSE j \in 1..Len(UpperCase) : UpperCase[j] = s[i]]
        ELSE s[i]]

\* str::trim_start_matches, str::trim_end_matches: the characters of chars at
\* that end are removed
RECURSIVE TrimStartMatches(_, _)
TrimStartMatches(s, chars) ==
    IF s # <<>> /\ Head(s) \in chars THEN TrimStartMatches(Tail(s), chars) ELSE s
RECURSIVE TrimEndMatches(_, _)
TrimEndMatches(s, chars) ==
    IF s # <<>> /\ s[Len(s)] \in chars
    THEN TrimEndMatches(SubSeq(s, 1, Len(s) - 1), chars)
    ELSE s

\* str::trim: the whitespace at both ends is removed
Trim(s) == TrimEndMatches(TrimStartMatches(s, Whitespace), Whitespace)

\* str::trim_matches(|c| c == '"' || c == '\''): every quote character at
\* either end is removed
TrimQuotes(s) == TrimEndMatches(TrimStartMatches(s, Quotes), Quotes)

\* from_raw_string
from_raw_string(input) == TrimQuotes(Trim(input))

\* str::split(sep): the pieces between the separators
RECURSIVE Split(_, _, _)
Split(s, sep, piece) ==
    IF s = <<>> THEN <<piece>>
    ELSE IF Head(s) = sep THEN <<piece>> \o Split(Tail(s), sep, <<>>)
    ELSE Split(Tail(s), sep, Append(piece, Head(s)))

\* the value of a decimal numeral
RECURSIVE DecValue(_, _)
DecValue(s, acc) ==
    IF s = <<>> THEN acc ELSE DecValue(Tail(s), acc * 10 + DigitValue(Head(s)))

\* str::parse results
ParseErr == [ok |-> FALSE, v |-> 0]
ParseOk(v) == [ok |-> TRUE, v |-> v]

\* <u16 as FromStr>::from_str: an optional '+', then decimal digits, at most U16Max
ParseU16(s) ==
    LET d == IF s # <<>> /\ Head(s) = "+" THEN Tail(s) ELSE s
    IN  IF d = <<>> \/ \E i \in 1..Len(d) : ~IsDigit(d[i]) THEN ParseErr
        ELSE IF DecValue(d, 0) > U16Max THEN ParseErr
        ELSE ParseOk(DecValue(d, 0))

\* <bool as FromStr>::from_str
ParseBool(s) ==
    IF s = <<"t", "r", "u", "e">> THEN ParseOk(TRUE)
    ELSE IF s = <<"f", "a", "l", "s", "e">> THEN ParseOk(FALSE)
    ELSE ParseErr

\* <CompressionType as FromStr>::from_str
ParseCompressionType(s) ==
    LET l == to_lowercase(s)
    IN  IF l = <<"g", "z", "i", "p">> THEN ParseOk("Gzip")
        ELSE IF l = <<"z", "s", "t", "d">> THEN ParseOk("Zstd")
        ELSE IF l = <<"n", "o", "n", "e">> THEN ParseOk("None")
        ELSE ParseErr

\* <Ipv4Addr as FromStr>::from_str: four decimal octets, each of one to three
\* digits, at most 255, without a leading zero
IsOctet(p) ==
    /\ Len(p) \in 1..3
    /\ \A i \in 1..Len(p) : IsDigit(p[i])
    /\ Len(p) > 1 => p[1] # "0"
    /\ DecValue(p, 0) <= 255
IsIpv4(s) ==
    LET parts == Split(s, ".", <<>>)
    IN  Len(parts) = 4 /\ \A i \in 1..4 : IsOctet(parts[i])

\* <Ipv6Addr as FromStr>::from_str: groups of one to four hexadecimal digits
\* between ':', eight of them, or fewer with one "::" standing for the
\* missing ones; the last two groups can be written as an IPv4 address
IsIpv6(s) ==
    LET parts == Split(s, ":", <<>>)
        n == Len(parts)
        \* a leading or trailing "::" leaves one more empty piece at that end
        first == IF Len(s) >= 2 /\ s[1] = ":" /\ s[2] = ":" THEN 2 ELSE 1
        last == IF Len(s) >= 2 /\ s[Len(s)] = ":" /\ s[Len(s) - 1] = ":" THEN n - 1 ELSE n
        ps == SubSeq(parts, first, last)
        gaps == {i \in 1..Len(ps) : ps[i] = <<>>}
        v4 == Len(ps) >= 1 /\ IsIpv4(ps[Len(ps)])
        groups == Len(ps) - Cardinality(gaps) + (IF v4 THEN 1 ELSE 0)
        IsGroup(p) == Len(p) \in 1..4 /\ \A i \in 1..Len(p) : IsHexDigit(p[i])
        doubles == {i \in 1..(Len(s) - 1) : s[i] = ":" /\ s[i + 1] = ":"}
    IN  /\ Cardinality(doubles) <= 1
        /\ Cardinality(gaps) = Cardinality(doubles)
        /\ \A i \in 1..Len(ps) :
               i \in gaps \/ IsGroup(ps[i]) \/ (i = Len(ps) /\ v4)
        /\ IF gaps = {} THEN groups = 8 ELSE groups <= 7

\* (mutant) every host is taken for an IP address
is_valid_ip_any(host) == TRUE

\* is_valid_ip: host.parse::<net::IpAddr>().is_ok()
is_valid_ip(host) == IsIpv4(host) \/ IsIpv6(host)

\* v.parse::<T>()
ParseAs(T, v) ==
    CASE T = "u16" -> ParseU16(v)
      [] T = "bool" -> ParseBool(v)
      [] T = "CompressionType" -> ParseCompressionType(v)

\* get_env_var::<T>(key): the parsed value of the variable, or T::default()
get_env_var(env, key, T) ==
    IF ~IsSet(env, key) THEN DefaultOf(T)
    ELSE IF ParseAs(T, Var(env, key)).ok THEN ParseAs(T, Var(env, key)).v
    ELSE DefaultOf(T)

\* the scan of a line's characters: a quote character of either kind toggles
\* in_quotes and is dropped, a '#' outside quotes ends the scan
RECURSIVE ScanLine(_, _, _)
ScanLine(rest, in_quotes, trimmed_line) ==
    IF rest = <<>> THEN trimmed_line
    ELSE IF Head(rest) \in Quotes THEN ScanLine(Tail(rest), ~in_quotes, trimmed_line)
    ELSE IF Head(rest) = "#" /\ ~in_quotes THEN trimmed_line
    ELSE ScanLine(Tail(rest), in_quotes, Append(trimmed_line, Head(rest)))

\* str::split_once('='): the place of the first '=', 0 without one
FirstEq(s) ==
    IF \E i \in 1..Len(s) : s[i] = "="
    THEN CHOOSE i \in 1..Len(s) : s[i] = "=" /\ \A j \in 1..(i - 1) : s[j] # "="
    ELSE 0

\* the body of the loop over the lines of the file
SetEnvLine(env, raw) ==
    LET line == Trim(raw)
        trimmed_line == ScanLine(line, FALSE, <<>>)
        eq == FirstEq(trimmed_line)
        key == Trim(SubSeq(trimmed_line, 1, eq - 1))
        value == Trim(SubSeq(trimmed_line, eq + 1, Len(trimmed_line)))
    IN  IF line = <<>> \/ Head(line) = "#" THEN env
        ELSE IF eq = 0 THEN env
        ELSE IF key = <<>> \/ value = <<>> THEN env
        ELSE SetVar(env, key, value)

RECURSIVE SetEnvLines(_, _)
SetEnvLines(env, lines) ==
    IF lines = <<>> THEN env
    ELSE SetEnvLines(SetEnvLine(env, Head(lines)), Tail(lines))

\* the outcomes of a call
OutOk(config) == [k |-> "Ok", msg |-> "", arg |-> <<>>, config |-> config]
OutErr(e) == [k |-> "Err", msg |-> e, arg |-> <<>>, config |-> NoConfig]
OutPanic(msg, arg) == [k |-> "Panic", msg |-> msg, arg |-> arg, config |-> NoConfig]

\* set_env_vars(file_path): the environment after it, and its outcome
set_env_vars(env, file) ==
    IF ~file.exists THEN [env |-> env, out |-> OutErr("io")]
    ELSE IF ~(file.size < MAX_ENV_FILE_SIZE)
    THEN [env |-> env, out |-> OutPanic(".env file exceeds BufReader::new limit of 8KiB", <<>>)]
    ELSE [env |-> SetEnvLines(env, file.lines), out |-> OutOk(NoConfig)]

\* Config::from_env after the file: the Config read from the environment
ConfigFromVars(env) ==
    LET clean_host == from_raw_string(Var(env, CRUMB_HOST))
    IN  IF IsSet(env, CRUMB_HOST) /\ ~is_valid_ip(clean_host)
        THEN OutPanic("Invalid IP address provided for CRUMB_HOST", clean_host)
        ELSE IF ~IsSet(env, CRUMB_PROTO_PATH)
        THEN OutPanic("CRUMB_PROTO_PATH not set or invalid. A .proto file is required.", <<>>)
        ELSE OutOk([host |-> IF IsSet(env, CRUMB_HOST) THEN clean_host
                             ELSE DefaultConfig.host,
                    port |-> get_env_var(env, CRUMB_PORT, "u16"),
                    compression_type |-> get_env_var(env, CRUMB_COMPRESSION_TYPE,
                                                     "CompressionType"),
                    reliable |-> get_env_var(env, CRUMB_RELIABLE, "bool"),
                    proto_path |-> from_raw_string(Var(env, CRUMB_PROTO_PATH)),
                    pem_path |-> IF IsSet(env, CRUMB_PEM_PATH)
                                 THEN from_raw_string(Var(env, CRUMB_PEM_PATH))
                                 ELSE DefaultOf("String")])

\* Config::from_env(file_path)
from_env(env, file_path) ==
    LET loaded == IF file_path.some THEN set_env_vars(env, file_path)
                  ELSE [env |-> env, out |-> OutOk(NoConfig)]
    IN  IF loaded.out.k # "Ok" THEN loaded
        ELSE [env |-> loaded.env, out |-> ConfigFromVars(loaded.env)]

FromEnv(file_path) ==
    /\ proc.out.k = "None"
    /\ proc' = [proc EXCEPT !.env = from_env(proc.env, file_path).env,
                            !.file = file_path,
                            !.out = from_env(proc.env, file_path).out]
    /\ UNCHANGED <<run, sock, cli, srv, got, replied>>

---------------------------------------------------------------------------
(* The specifications of util/config.rs *)

\* a variable of the environment before the call: not set, or set to a value
NotSet == [set |-> FALSE, v |-> <<>>]
IsSetTo(v) == [set |-> TRUE, v |-> v]
MkEnv(opts) ==
    [k \in {<<n>> : n \in {m \in DOMAIN opts : opts[m].set}} |-> opts[k[1]].v]
\* the values of CRUMB_HOST, CRUMB_PORT, CRUMB_COMPRESSION_TYPE and CRUMB_RELIABLE
\* a run starts with (those of the tests of config.rs among them)
HostRaws ==
   {<<"1", "2", "7", ".", "0", ".", "0", ".", "1">>,
    <<"\"", "1", ".", "2", ".", "3", ".", "4", "\"">>,
    <<"'", ":", ":", "1", "'">>,
    <<" ", ":", ":", "1", " ">>,
    <<":", ":", "1">>,
    <<"1", "2", "3", "4">>,
    <<"1", "2", "7", ".", "0", ".", "0">>,
    <<":", "1">>,
    <<>>,
    <<"\"", "\"">>,
    <<"2", "5", "6", ".", "1", ".", "1", ".", "1">>,
    <<"0", "1", ".", "2", ".", "3", ".", "4">>,
    <<"1", ".", "2", ".", "3", ".", "4", ".", "5">>,
    <<"\"", " ", "1", ".", "2", ".", "3", ".", "4", "\"">>,
    <<":", ":", "f", "f", "f", "f", ":", "1", ".", "2", ".", "3", ".", "4">>,
    <<"l", "o", "c", "a", "l", "h", "o", "s", "t">>,
    <<"f", "e", "8", "0", ":", ":", "1">>,
    <<"1", ":", "2", ":", "3", ":", "4", ":", "5", ":", "6", ":", "7", ":", "8">>,
    <<"1", ":", ":", "2", ":", ":", "3">>,
    <<"1", "2", "3", "4", "5", ":", ":", "1">>,
    <<":", ":">>}
\* CRUMB_PORT
PortRaws ==
   {<<"5", "5", "5", "5", "5">>,
    <<"w", "o", "o", "p", "s">>,
    <<>>,
    <<"7", "0", "0", "0", "0">>,
    <<"+", "8", "0">>,
    <<" ", "8", "0">>,
    <<"0">>,
    <<"6", "5", "5", "3", "5">>,
    <<"6", "5", "5", "3", "6">>,
    <<"-", "1">>}
\* CRUMB_COMPRESSION_TYPE
CompressionRaws ==
   {<<"g", "z", "i", "p">>,
    <<"G", "Z", "I", "P">>,
    <<"Z", "s", "t", "d">>,
    <<"n", "o", "n", "e">>,
    <<"g", "z", "i", "p", "p", "e", "r">>,
    <<>>}
\* CRUMB_RELIABLE
ReliableRaws ==
   {<<"t", "r", "u", "e">>,
    <<"f", "a", "l", "s", "e">>,
    <<"f", "a", "r", "s", "e">>,
    <<"T", "R", "U", "E">>,
    <<>>}

OptsOf(raw) == {NotSet} \cup {IsSetTo(v) : v \in raw}

\* the environment of tests::env_file_full, and those that differ from it
GoodOpts ==
    (CRUMB_HOST :> IsSetTo(<<"1", ".", "2", ".", "3", ".", "4">>)) @@ (CRUMB_PORT :> IsSetTo(<<"5", "5", "5", "5", "5">>))
    @@ (CRUMB_COMPRESSION_TYPE :> IsSetTo(<<"g", "z", "i", "p">>))
    @@ (CRUMB_RELIABLE :> IsSetTo(<<"f", "a", "l", "s", "e">>))
    @@ (CRUMB_PEM_PATH :> IsSetTo(<<"\"", "i", "t", "s", "/", "j", "u", "s", "t", "/", "a", "/", "t", "e", "s", "t", ".", "p", "e", "m", "\"">>))
    @@ (CRUMB_PROTO_PATH :> IsSetTo(<<"\"", "t", "e", "s", "t", "i", "n", "g", "/", "t", "e", "s", "t", "s", "/", "s", "t", "u", "f", "f", ".", "p", "r", "o", "t", "o", "\"">>))
EnvInputs ==
    {EmptyEnv}
    \cup {MkEnv((CRUMB_HOST :> h) @@ GoodOpts) : h \in OptsOf(HostRaws)}
    \cup {MkEnv((CRUMB_PORT :> p) @@ (CRUMB_COMPRESSION_TYPE :> c)
                @@ (CRUMB_RELIABLE :> r) @@ GoodOpts) :
              p \in OptsOf(PortRaws), c \in OptsOf(CompressionRaws),
              r \in OptsOf(ReliableRaws)}
    \cup {MkEnv((n :> NotSet) @@ GoodOpts) : n \in {CRUMB_PEM_PATH, CRUMB_PROTO_PATH}}

\* a file of the given lines (of 64 bytes and a line end each), a file that is
\* not there, a file of 8 KiB
EnvFile(lines) ==
    [some |-> TRUE, exists |-> TRUE, size |-> Len(lines) * 65, lines |-> lines]
MissingFile == [some |-> TRUE, exists |-> FALSE, size |-> 0, lines |-> <<>>]
OversizeFile == [some |-> TRUE, exists |-> TRUE, size |-> MAX_ENV_FILE_SIZE, lines |-> <<>>]
\* .test-env-full
TestEnvFull ==
    <<<<CRUMB_HOST>> \o <<"=", "\"", "1", ".", "2", ".", "3", ".", "4", "\"">>,
      <<CRUMB_PORT>> \o <<"=", "5", "5", "5", "5", "5">>,
      <<CRUMB_COMPRESSION_TYPE>> \o <<"=", "g", "z", "i", "p">>,
      <<CRUMB_RELIABLE>> \o <<"=", "f", "a", "l", "s", "e">>,
      <<CRUMB_PEM_PATH>> \o <<"=", "\"", "i", "t", "s", "/", "j", "u", "s", "t", "/", "a", "/", "t", "e", "s", "t", ".", "p", "e", "m", "\"">>,
      <<CRUMB_PROTO_PATH>> \o <<"=", "\"", "t", "e", "s", "t", "i", "n", "g", "/", "t", "e", "s", "t", "s", "/", "s", "t", "u", "f", "f", ".", "p", "r", "o", "t", "o", "\"">>>>
\* .test-env-full-bad
TestEnvFullBad ==
    <<<<CRUMB_HOST>> \o <<"=", "1", "2", "3", "4">>,
      <<CRUMB_PORT>> \o <<"=", "\"", "w", "o", "o", "p", "s", "\"">>,
      <<CRUMB_COMPRESSION_TYPE>> \o <<"=", "g", "z", "i", "p", "p", "e", "r">>,
      <<CRUMB_RELIABLE>> \o <<"=", "f", "a", "r", "s", "e">>,
      <<CRUMB_PEM_PATH>> \o <<"=", "1">>,
      <<CRUMB_PROTO_PATH>> \o <<"=", "1", "0", "0", "0">>>>
\* .test-env-full-comments
TestEnvFullComments ==
    <<<<"#", " ", "T", "h", "i", "s", " ", "i", "s", " ", "a", " ", "c", "o", "m", "m", "e", "n", "t">>,
      <<CRUMB_HOST>> \o <<"=", "\"", "1", ".", "2", ".", "3", ".", "4", "\"", " ", "#", " ", "T", "h", "i", "s", " ", "i", "s", " ", "a", "l", "s", "o", " ", "a", " ", "c", "o", "m", "m", "e", "n", "t">>,
      <<CRUMB_PORT>> \o <<"=", "5", "5", "5", "5", "5">>,
      <<CRUMB_COMPRESSION_TYPE>> \o <<"=", "g", "z", "i", "p">>,
      <<CRUMB_RELIABLE>> \o <<"=", "f", "a", "l", "s", "e">>,
      <<"#", " ", "T", "h", "e", " ", "c", "o", "m", "m", "e", "n", "t", " ", "i", "n", " ", "t", "h", "e", " ", "p", "a", "t", "h", " ", "s", "h", "o", "u", "l", "d", " ", "b", "e", " ", "i", "g", "n", "o", "r", "e", "d">>,
      <<CRUMB_PEM_PATH>> \o <<"=", "\"", "#", "i", "t", "s", "/", "j", "u", "s", "t", "/", "a", "/", "t", "e", "s", "t", ".", "p", "e", "m", "\"", " ", "#", " ", "A", "n", "d", " ", "s", "o", " ", "s", "h", "o", "u", "l", "d", " ", "t", "h", "i", "s", " ", "\"", "#", "\"">>,
      <<CRUMB_PROTO_PATH>> \o <<"=", "\"", "t", "e", "s", "t", "i", "n", "g", "/", "t", "e", "s", "t", "s", "/", "s", "t", "u", "f", "f", ".", "p", "r", "o", "t", "o", "\"">>>>

ConfFiles == {NoFile, MissingFile, OversizeFile, EnvFile(<<>>), EnvFile(TestEnvFull),
              EnvFile(TestEnvFullBad), EnvFile(TestEnvFullComments)}

\* Config::from_env with the files of the tests, from every environment above
InitConf ==
    /\ run = [clients |-> {}, left |-> 0, queue |-> MaxQueue]
    /\ sock = [s \in SockIds |-> ClosedSock]
    /\ cli = [c \in Clients |-> NewClient]
    /\ srv = NewServer
    /\ got = [c \in Clients |-> <<>>]
    /\ replied = [c \in Clients |-> <<>>]
    /\ proc \in {NewProc(env) : env \in EnvInputs}

NextConf == \E file_path \in ConfFiles : FromEnv(file_path)

SpecConf == InitConf /\ [][NextConf]_vars

\* the lines of an env file that set CRUMB_PEM_PATH: the name, '=', and every
\* value of at most MaxVal characters out of a letter, '#', the two quote
\* characters and the space; those lines after a '#' or a space; lines
\* without a name
ValueChars == {"a", "#", "\"", "'", " "}
ValuesUpTo(n) == UNION {[1..k -> ValueChars] : k \in 0..n}
PemLine(v) == <<CRUMB_PEM_PATH, "=">> \o v
ShortLines == {PemLine(v) : v \in ValuesUpTo(2)}
Lines ==
    {PemLine(v) : v \in ValuesUpTo(MaxVal)}
    \cup {<<ch>> \o l : ch \in {"#", " "}, l \in ShortLines}
    \cup ValuesUpTo(2)
    \cup {<<"=">> \o v : v \in ValuesUpTo(2)}

\* files of one line, and files of two short lines
LineFiles ==
    {EnvFile(<<l>>) : l \in Lines}
    \cup {EnvFile(<<l1, l2>>) : l1 \in ShortLines, l2 \in ShortLines}

\* Config::from_env with a file of lines, CRUMB_PROTO_PATH alone being set
InitEnvFile ==
    /\ run = [clients |-> {}, left |-> 0, queue |-> MaxQueue]
    /\ sock = [s \in SockIds |-> ClosedSock]
    /\ cli = [c \in Clients |-> NewClient]
    /\ srv = NewServer
    /\ got = [c \in Clients |-> <<>>]
    /\ replied = [c \in Clients |-> <<>>]
    /\ proc = NewProc(MkEnv(CRUMB_PROTO_PATH :> IsSetTo(<<"m", "e", "s", "s", "a", "g", "e", ".", "p", "r", "o", "t", "o">>)))

NextEnvFile == \E file_path \in LineFiles : FromEnv(file_path)

SpecEnvFile == InitEnvFile /\ [][NextEnvFile]_vars

---------------------------------------------------------------------------
(* The claims *)

Last(q) == q[Len(q)]

\* a Cleartext handle_client call of this step took a datagram and ran to its end
CleartextHandled ==
    /\ srv.pc = "idle" /\ ~srv.acceptor
    /\ Len(sock'["srv"].rq) < Len(sock["srv"].rq)
    /\ srv'.echo = 1

\* C1: in Cleartext mode, when handle_client has run on the payload P a connected
\* Client sent, P is delivered to that Client: it is the newest datagram of the
\* Client's socket, there for its receive to return.
C1_CleartextRoundTrip ==
    [][\A c \in Clients :
        (/\ CleartextHandled
         /\ cli[c].st = "ready" /\ cli[c].kind = "Cleartext"
         /\ srv'.client_addr = LocalAddr(c, cli[c].conf))
        => (/\ sock'[c].rq # <<>>
            /\ Last(sock'[c].rq).data = srv'.buffer)]_vars

\* C2: in Secured mode, a handle_client call that served the first flight of a
\* security-enabled Client ends with the handshake completed on both sides.
C2_SecuredHandshakeCompletes ==
    \A c \in Clients :
        (/\ srv.acceptor /\ srv.pc = "idle" /\ srv.hs # "None"
         /\ cli[c].conf.use_dtls
         /\ srv.client_addr = LocalAddr(c, cli[c].conf))
        => (srv.hs = "Established" /\ cli[c].hs = "Established")

\* C3: what a Client's receives return are, in order, the replies the Server sent
\* with send_to to the address receive_from gave it for that Client: each one
\* exactly, with its length, when the buffer is long enough for it.
C3_ReplyReceived ==
    \A c \in Clients :
        /\ Len(got[c]) <= Len(replied[c])
        /\ \A i \in 1..Len(got[c]) :
               got[c][i].cap >= Len(replied[c][i])
               => (got[c][i].data = replied[c][i] /\ got[c][i].n = Len(replied[c][i]))

\* C3 happens: a Client's receive returned the longest reply in full
C3_Witness ==
    \E c \in Clients :
        /\ Len(got[c]) >= 1
        /\ got[c][1].data = replied[c][1]
        /\ got[c][1].n = MaxLen

\* C4: a Client over a Secured stream exists only with its handshake Established;
\* a failed handshake leaves the error of init, no Client, no stream and no socket.
C4_SecuredOnlyEstablished ==
    \A c \in Clients :
        /\ (cli[c].st = "ready" /\ cli[c].conf.use_dtls)
           => (cli[c].kind = "Secured" /\ cli[c].hs = "Established")
        /\ cli[c].kind = "Secured" => cli[c].hs = "Established"
        /\ cli[c].hs = "Failed"
           => (/\ cli[c].st = "failed" /\ cli[c].kind = "None"
               /\ cli[c].res = Err("DTLS handshake failed")
               /\ sock[c].h = 0)

\* C4 happens: one Client's handshake completed, the other's failed
C4_Witness ==
    /\ \E c \in Clients : cli[c].st = "ready" /\ cli[c].kind = "Secured"
    /\ \E c \in Clients : cli[c].hs = "Failed"

\* C5: Server::init with security enabled and a key or certificate that does not
\* load returns the CertLoadFailed error and constructs no Server.
C5_CertLoadFailedReturned ==
    srv.pem = "bad" => (srv.st = "failed" /\ srv.res = Err("CertLoadFailed"))

\* C6: a handle_client call whose Acceptor handshake failed has returned the
\* handshake's error, and has neither reached the echo nor transmitted a datagram.
C6_NoEchoOnFailure ==
    srv.hs = "Failed"
    => (/\ srv.pc = "idle"
        /\ srv.res = Err("DTLS handshake failed")
        /\ srv.echo = 0
        /\ srv.sent = <<>>)

\* C6 happens: a handle_client call given a ClientHello failed its handshake
C6_Witness == srv.hs = "Failed" /\ srv.buffer = ClientHello

\* C7: a handle_client call that returned success has transmitted exactly one
\* response: the payload it received, to the sender address it captured.
C7_SuccessWroteOneResponse ==
    (srv.pc = "idle" /\ srv.echo = 1 /\ srv.res.k = "Ok")
    => srv.sent = <<[dst |-> srv.client_addr, data |-> srv.buffer]>>

\* C8: the read timeout and the write timeout of every socket are equal, after any
\* set_timeout calls, those that returned an error included.
C8_TimeoutsEqual == \A s \in SockIds : sock[s].rto = sock[s].wto

\* C8 happens: a timeout is set, and a later set_timeout returned an error
C8_Witness ==
    \E c \in Clients : sock[c].rto = MaxDur /\ cli[c].res = Err("InvalidInput")

C10_ClosedStaysClosed ==
    /\ [](\A c \in Clients : cli[c].st = "closed" => (sock[c].h = 0 /\ cli[c].pc = "idle"))
    /\ [](srv.st = "closed" => (sock["srv"].h = 0 /\ srv.pc = "idle"))
    /\ [][/\ \A c \in Clients :
               cli[c].st = "closed" => (cli'[c] = cli[c] /\ sock'[c] = sock[c])
          /\ srv.st = "closed" => (srv' = srv /\ sock'["srv"] = sock["srv"])]_vars

\* C10 happens: the Server and a Client over a Secured stream are closed
C10_Witness ==
    /\ srv.st = "closed"
    /\ \E c \in Clients : cli[c].st = "closed" /\ cli[c].kind = "Secured"

\* C11: peer_addr() of every Client's stream is the address its Config's host and
\* port resolve to, after init and after any sends, receives and set_timeouts.
C11_PeerAddrIsConfigured ==
    \A c \in Clients :
        cli[c].st = "ready" => PeerAddr(sock[c]) = ResolvedAddr(cli[c].conf)

\* a datagram is read by the Acceptor session of a handle_client call in progress
SessionReads == srv.pc = "accept" /\ Len(sock'["srv"].rq) < Len(sock["srv"].rq)

\* C12: the Acceptor session of a handle_client call in progress reads only
\* datagrams of the client whose datagram started the call.
C12_SessionReadsOwnClient ==
    [][SessionReads => Head(sock["srv"].rq).src = srv.client_addr]_vars

\* C13: when handle_client has received a client's first flight and runs the
\* Acceptor handshake, the session has processed that flight: it is Handshaking,
\* not still awaiting a first flight.
C13_SeededByFirstDatagram ==
    (srv.pc = "accept" /\ srv.buffer = ClientHello) => srv.hs # "AwaitingFirstFlight"

\* the steps of a handshake attempt
HsSteps == {<<"AwaitingFirstFlight", "Handshaking">>,
            <<"Handshaking", "Established">>, <<"Handshaking", "Failed">>}

\* the caller starts a handle_client call (or the test thread its recv_from)
NewServerCall == srv.pc = "idle" /\ Len(sock'["srv"].rq) < Len(sock["srv"].rq)

\* C14: a handshake attempt moves only AwaitingFirstFlight -> Handshaking ->
\* Established or Failed; the Acceptor enters Handshaking only in a step that
\* reads a first flight; nothing leaves Failed but a new call of the caller;
\* Failed has returned the error; a Secured stream is used only in Established.
C14_HandshakeStateMachine ==
    /\ [][/\ srv'.hs # srv.hs =>
               \/ <<srv.hs, srv'.hs>> \in HsSteps /\ srv.pc # "idle"
               \/ NewServerCall /\ srv'.hs \in {"None", "AwaitingFirstFlight"}
          /\ (srv'.hs = "Handshaking" /\ srv.hs # "Handshaking") =>
               (/\ sock["srv"].rq # <<>>
                /\ Head(sock["srv"].rq).data = ClientHello
                /\ sock'["srv"].rq = Tail(sock["srv"].rq))
          /\ \A c \in Clients :
               cli'[c].hs # cli[c].hs =>
                   \/ cli[c].hs = "None" /\ cli[c].st = "new" /\ cli'[c].hs = "Handshaking"
                   \/ cli[c].hs = "Handshaking" /\ cli'[c].hs \in {"Established", "Failed"}
         ]_vars
    /\ [](srv.hs = "Failed" =>
             (srv.pc = "idle" /\ srv.res = Err("DTLS handshake failed")))
    /\ [](srv.acceptor /\ srv.echo = 1 => srv.hs = "Established")
    /\ [](\A c \in Clients :
             /\ cli[c].hs = "Failed" =>
                    (cli[c].st = "failed" /\ cli[c].res = Err("DTLS handshake failed"))
             /\ cli[c].kind = "Secured" => cli[c].hs = "Established")

\* C14 happens: the Acceptor's attempt has failed while a Connector is Handshaking
C14_Witness ==
    /\ srv.hs = "Failed" /\ srv.res.k = "Err"
    /\ \E c \in Clients : cli[c].hs = "Handshaking"

\* C15: a handshake that is Handshaking eventually is Established or Failed: the
\* Connector's in Client::init, stated where the Server is inside handle_client's
\* accept with the datagram of that Client (the peer is there, and sends nothing),
\* and the Acceptor's in handle_client.
C15_HandshakeTerminates ==
    /\ \A c \in Clients :
           (cli[c].hs = "Handshaking" /\ srv.pc = "accept"
                /\ srv.client_addr = LocalAddr(c, cli[c].conf))
           ~> (cli[c].hs \in {"Established", "Failed"})
    /\ (srv.hs = "Handshaking") ~> (srv.hs \in {"Established", "Failed"})

\* C16: handle_client leaves the listening socket and the Acceptor identity as
\* Server::init made them: whenever no call is in progress, after any calls,
\* those that failed included, the Server holds its one handle of the socket
\* bound at its port, and the identity of its Config; no step of a call changes
\* the binding or the identity.
C16_HandleClientKeepsServer ==
    /\ [](srv.st = "listening" =>
             (/\ sock["srv"].local = WildcardAddr(srv.conf.port)
              /\ sock["srv"].peer = NoAddr
              /\ srv.acceptor = srv.conf.use_dtls
              /\ srv.pc = "idle" => sock["srv"].h = 1))
    /\ [][(srv.st = "listening" /\ srv'.st = "listening") =>
             (/\ sock'["srv"].local = sock["srv"].local
              /\ srv'.acceptor = srv.acceptor
              /\ srv'.conf = srv.conf)]_vars

\* C16 happens: a handle_client call has returned the handshake's error, and
\* the Server is listening with its identity
C16_Witness ==
    /\ srv.st = "listening" /\ srv.pc = "idle" /\ srv.acceptor
    /\ srv.res = Err("DTLS handshake failed")
    /\ sock["srv"].h = 1

\* a Cleartext receive of this step returned on a datagram
CleartextReceived(c) ==
    /\ cli[c].pc = "recv" /\ cli'[c].pc = "idle"
    /\ cli[c].kind = "Cleartext" /\ sock[c].rq # <<>>

\* a handle_client call of this step took a datagram with recv_from
HandleClientReceived ==
    /\ NewServerCall /\ srv'.st = "listening"
    /\ (srv'.pc = "accept" \/ srv'.echo = 1)

C18_DefaultsOfConfig ==
    proc.out.k = "Ok" =>
        /\ (~IsSet(proc.env, CRUMB_PORT) \/ ~ParseU16(Var(proc.env, CRUMB_PORT)).ok)
               => proc.out.config.port = DefaultConfig.port
        /\ (\/ ~IsSet(proc.env, CRUMB_COMPRESSION_TYPE)
            \/ ~ParseCompressionType(Var(proc.env, CRUMB_COMPRESSION_TYPE)).ok)
               => proc.out.config.compression_type = DefaultConfig.compression_type
        /\ (~IsSet(proc.env, CRUMB_RELIABLE) \/ ~ParseBool(Var(proc.env, CRUMB_RELIABLE)).ok)
               => proc.out.config.reliable = DefaultConfig.reliable

\* a line read with quotes that pair: a quote character opens a quoted value
\* that the same character closes; a '#' outside a quoted value ends the
\* content, one inside belongs to it; no quote character is content
RECURSIVE QuotedScan(_, _, _)
QuotedScan(rest, open, content) ==
    IF rest = <<>> THEN [content |-> content, open |-> open]
    ELSE IF open = "" /\ Head(rest) = "#" THEN [content |-> content, open |-> open]
    ELSE IF open = "" /\ Head(rest) \in Quotes THEN QuotedScan(Tail(rest), Head(rest), content)
    ELSE IF open = Head(rest) THEN QuotedScan(Tail(rest), "", content)
    ELSE IF Head(rest) \in Quotes THEN QuotedScan(Tail(rest), open, content)
    ELSE QuotedScan(Tail(rest), open, Append(content, Head(rest)))

\* the lines that set CRUMB_PEM_PATH and close the quotes they open
IsPemLine(l) ==
    /\ Len(l) >= 2 /\ l[1] = CRUMB_PEM_PATH /\ l[2] = "="
    /\ QuotedScan(SubSeq(l, 3, Len(l)), "", <<>>).open = ""
\* the value CRUMB_PEM_PATH has after such lines (<<>>: it is not set)
RECURSIVE PemAfter(_, _)
PemAfter(lines, value) ==
    IF lines = <<>> THEN value
    ELSE LET v == Trim(QuotedScan(SubSeq(Head(lines), 3, Len(Head(lines))), "", <<>>).content)
         IN  PemAfter(Tail(lines), IF v = <<>> THEN value ELSE v)

\* C19: after the env file is parsed line by line, the stored value of a line
\* is its content up to a '#' outside a quoted value, a '#' inside a quoted
\* value being kept and the quote characters left out, for every line, those
\* with both single and double quote characters included.
C19_CommentsAndQuotes ==
    (/\ proc.out.k = "Ok"
     /\ proc.file.lines # <<>>
     /\ \A i \in 1..Len(proc.file.lines) : IsPemLine(proc.file.lines[i]))
    => LET value == PemAfter(proc.file.lines, <<>>)
       IN  IF value = <<>> THEN ~IsSet(proc.env, CRUMB_PEM_PATH)
           ELSE IsSet(proc.env, CRUMB_PEM_PATH) /\ Var(proc.env, CRUMB_PEM_PATH) = value

\* the IP literals among the hosts of the runs, and Config::from_env having
\* read the environment (no file, or a file that was there and read)
IpLiterals == {<<"1", "2", "7", ".", "0", ".", "0", ".", "1">>, <<"1", ".", "2", ".", "3", ".", "4">>, <<":", ":", "1">>, <<":", ":">>, <<"f", "e", "8", "0", ":", ":", "1">>,
               <<":", ":", "f", "f", "f", "f", ":", "1", ".", "2", ".", "3", ".", "4">>, <<"1", ":", "2", ":", "3", ":", "4", ":", "5", ":", "6", ":", "7", ":", "8">>}
ReadEnvironment ==
    /\ proc.out.k # "None"
    /\ proc.file.some => proc.file.exists /\ proc.file.size < MAX_ENV_FILE_SIZE

\* C20: Config::from_env never returns a Config whose host is not an IPv4 or
\* IPv6 literal: with CRUMB_HOST set to a value that is not one after its
\* whitespace and surrounding quotes are trimmed, it panics with "Invalid IP
\* address provided for CRUMB_HOST", and with CRUMB_HOST unset the host of the
\* Config is the default, 127.0.0.1.
C20_HostIsIpLiteral ==
    /\ proc.out.k = "Ok" => proc.out.config.host \in IpLiterals
    /\ (/\ ReadEnvironment
        /\ IsSet(proc.env, CRUMB_HOST)
        /\ from_raw_string(Var(proc.env, CRUMB_HOST)) \notin IpLiterals)
       => /\ proc.out.k = "Panic"
          /\ proc.out.msg = "Invalid IP address provided for CRUMB_HOST"
          /\ proc.out.arg = from_raw_string(Var(proc.env, CRUMB_HOST))
    /\ (proc.out.k = "Ok" /\ ~IsSet(proc.env, CRUMB_HOST))
       => proc.out.config.host = <<"1", "2", "7", ".", "0", ".", "0", ".", "1">>

\* C20's case: a Config is returned whose host is the value of CRUMB_HOST
\* without the whitespace or quotes around it
C20_Witness ==
    /\ proc.out.k = "Ok"
    /\ IsSet(proc.env, CRUMB_HOST)
    /\ Var(proc.env, CRUMB_HOST) # proc.out.config.host
    /\ proc.out.config.host = from_raw_string(Var(proc.env, CRUMB_HOST))

\* a step of a Cleartext Server that takes from its queue and reaches the
\* echo: a handle_client call
CleartextCall ==
    /\ srv.st = "listening" /\ srv.pc = "idle" /\ ~srv.acceptor
    /\ srv'.st = "listening" /\ srv'.echo = 1
    /\ Len(sock'["srv"].rq) < Len(sock["srv"].rq)

\* C21: in Cleartext mode a handle_client call takes exactly one datagram from
\* the listening socket's queue, the one that arrived first (its payload and
\* sender are the ones captured), and the datagrams behind it stay queued in
\* their order; no other step of a listening Server takes a datagram out of
\* turn, so n calls consume the first n datagrams.
C21_OneDatagramInOrder ==
    [][(srv.st = "listening" /\ srv'.st = "listening" /\ ~srv.acceptor)
       => /\ CleartextCall
             => /\ sock'["srv"].rq = Tail(sock["srv"].rq)
                /\ srv'.buffer = Head(sock["srv"].rq).data
                /\ srv'.client_addr = Head(sock["srv"].rq).src
          /\ Len(sock'["srv"].rq) < Len(sock["srv"].rq)
             => sock'["srv"].rq = Tail(sock["srv"].rq)
          /\ Len(sock'["srv"].rq) >= Len(sock["srv"].rq)
             => SubSeq(sock'["srv"].rq, 1, Len(sock["srv"].rq)) = sock["srv"].rq]_vars

\* C21's case: a Cleartext handle_client call has returned with the datagram
\* it took, and a different datagram is queued behind it
C21_Witness ==
    /\ srv.st = "listening" /\ srv.pc = "idle" /\ ~srv.acceptor
    /\ srv.echo = 1
    /\ srv.client_addr # NoAddr
    /\ sock["srv"].rq # <<>>
    /\ Head(sock["srv"].rq).data # srv.buffer

====
